---- MODULE Spec2Model ----
(***************************************************************************)
(* LegalMindAI backend: the ingestion of the resources directory into the  *)
(* vector store (Application.runSetup, ChromaDBHandler), the question      *)
(* pipeline (Application.runQuestion, get_answer_from_llm) and the HTTP    *)
(* route (flask_backend.ask_legal_question).                               *)
(*                                                                         *)
(* Every text (a file's content, a paragraph, a question, a prompt, an     *)
(* answer) is a sequence of tokens; "\n" is one newline character, so the  *)
(* paragraph separator '\n\n' is two consecutive "\n" tokens.              *)
(***************************************************************************)
EXTENDS Integers, Sequences, FiniteSets, TLC

VARIABLES
    files,          \* the .txt files of ./resources, in os.listdir order
    bundle,         \* ./resources/austrian_laws_chromadb.json
    pcSetup,        \* position of the import-time call legal_app.runSetup()
    setupMsg,       \* TRUE once runSetup printed "No files found ..."
    submitted,      \* number of executor.map tasks a worker has picked up
    running,        \* file indices a worker is reading
    results,        \* per file index: the worker's result
    completion,     \* file indices in the order their workers finished
    vector_entries, \* runSetup's local lists
    metadatas,
    ids,
    collection,     \* Application.collection
    store,          \* the persistent client: collection name -> id -> chunk
    store0,         \* the store as the process found it
    upDocs,         \* upsert_documents_with_metadata's truncated lists
    upMetas,
    upIds,
    upI,            \* its loop variable i
    upsertCalls,    \* the collection.upsert calls sent so far
    uuidCtr,        \* uuid4 values drawn so far
    pc,             \* per request thread: position in ask_legal_question
    body,           \* per request thread: the request's JSON body
    question,       \* per request thread: local variable question
    handle,         \* per request thread: get_or_create_collection's result
    queryCount,     \* per request thread: store queries of this request
    queriedColl,    \* per request thread: the collection last queried
    retrieved,      \* per request thread: query_result
    context,        \* per request thread: context + metadata_context
    llmCalls,       \* per request thread: chat() calls of this request
    llmPrompt,      \* per request thread: the prompt of the last chat()
    llmOut,         \* per request thread: the content chat() returned
    raised,         \* per request thread: text of the exception caught
    response,       \* per request thread: the response sent
    content,        \* response.message.content under cleaning
    answer,         \* what get_answer_from_llm returned for content
    pcClean         \* "raw" before the cleaning, "cleaned" after

setupVars == <<files, bundle, pcSetup, setupMsg, submitted, running, results,
               completion, vector_entries, metadatas, ids, collection, store,
               store0, upDocs, upMetas, upIds, upI, upsertCalls, uuidCtr>>
loadVars == <<submitted, running, results, completion>>
listVars == <<vector_entries, metadatas, ids>>
upVars == <<upDocs, upMetas, upIds, upI, upsertCalls, uuidCtr>>
reqVars == <<pc, body, question, handle, queryCount, queriedColl, retrieved,
             context, llmCalls, llmPrompt, llmOut, raised, response>>
cleanVars == <<content, answer, pcClean>>
vars == <<setupVars, reqVars, cleanVars>>

(***************************************************************************)
(* Bounds of the model.                                                    *)
(***************************************************************************)
MaxFiles == 3
MaxBatches == 2
NThreads == 2
MaxOut == 5

(***************************************************************************)
(* Program constants.                                                      *)
(***************************************************************************)
batch_size == 1000
n_results == 5
max_workers == 10

chroma_collection_name == "legal_docs"

Min(a, b) == IF a < b THEN a ELSE b
Max(a, b) == IF a < b THEN b ELSE a

(***************************************************************************)
(* Text helpers: str.strip, str.split('\n\n'), str.join.                   *)
(***************************************************************************)
Whitespace == {" ", "\n"}

RECURSIVE lstrip(_)
lstrip(s) ==
    IF s # <<>> /\ Head(s) \in Whitespace THEN lstrip(Tail(s)) ELSE s

RECURSIVE rstrip(_)
rstrip(s) ==
    IF s # <<>> /\ s[Len(s)] \in Whitespace
    THEN rstrip(SubSeq(s, 1, Len(s) - 1)) ELSE s

strip(s) == rstrip(lstrip(s))

\* content.split('\n\n'): the pieces between non-overlapping separators,
\* scanned left to right; cur is the piece being collected.
RECURSIVE split(_, _)
split(s, cur) ==
    IF s = <<>> THEN <<cur>>
    ELSE IF Len(s) >= 2 /\ s[1] = "\n" /\ s[2] = "\n"
         THEN <<cur>> \o split(SubSeq(s, 3, Len(s)), <<>>)
         ELSE split(Tail(s), Append(cur, Head(s)))

RECURSIVE join(_, _)
join(sep, parts) ==
    IF parts = <<>> THEN <<>>
    ELSE IF Len(parts) = 1 THEN parts[1]
         ELSE parts[1] \o sep \o join(sep, Tail(parts))

RECURSIVE Flatten(_)
Flatten(ss) == IF ss = <<>> THEN <<>> ELSE Head(ss) \o Flatten(Tail(ss))

Range(s) == {s[i] : i \in 1..Len(s)}

\* All orderings of a finite set.
Orderings(S) ==
    {o \in [1..Cardinality(S) -> S] : \A i, j \in 1..Cardinality(S) : o[i] = o[j] => i = j}

(***************************************************************************)
(* Application._load_text_file                                             *)
(***************************************************************************)
Paragraphs(text) ==
    LET stripped == [i \in 1..Len(split(text, <<>>)) |-> strip(split(text, <<>>)[i])]
    IN SelectSeq(stripped, LAMBDA p : p # <<>>)

\* Mutation: a file that cannot be read yields its error as a paragraph.
load_text_file_error(f) ==
    IF f.readable THEN Paragraphs(f.content) ELSE << <<"Error loading file">> >>

load_text_file(f) == IF f.readable THEN Paragraphs(f.content) ELSE <<>>

(***************************************************************************)
(* Metadata: the keys the program reads or writes; "" and 0 stand for an   *)
(* absent key (dict.get then gives a falsy value).                         *)
(***************************************************************************)
Meta(source, type, law_number, title, url) ==
    [source |-> source, type |-> type, law_number |-> law_number,
     title |-> title, url |-> url]

TextFileMeta == Meta("text_file", "paragraph", 0, "", "")
UnknownMeta == Meta("unknown", "", 0, "", "")

TxtId(n) == <<"txt", n>>
UuidId(n) == <<"uuid", n>>
LawId(n) == <<"law", n>>

(***************************************************************************)
(* The external vector store, by its contract: get-or-create by name and   *)
(* insert-or-overwrite by id, entries applied in order.                    *)
(***************************************************************************)
NoCollection == [bound |-> FALSE, name |-> ""]
Handle(name) == [bound |-> TRUE, name |-> name]

EmptyColl == [k \in {} |-> [doc |-> <<>>, meta |-> UnknownMeta]]

StoreGetOrCreate(st, name) ==
    IF name \in DOMAIN st THEN st ELSE (name :> EmptyColl) @@ st

StoreUpsert(coll, bdocs, bmetas, bids) ==
    LET ks == Range(bids)
        last(k) == CHOOSE j \in 1..Len(bids) :
                       bids[j] = k /\ \A j2 \in (j + 1)..Len(bids) : bids[j2] # k
    IN [k \in DOMAIN coll \cup ks |->
            IF k \in ks
            THEN [doc |-> bdocs[last(k)], meta |-> bmetas[last(k)]]
            ELSE coll[k]]

(***************************************************************************)
(* The inputs: the resources directory and the persisted store.            *)
(***************************************************************************)
File(readable, text) == [readable |-> readable, content |-> text]

Unreadable == File(FALSE, <<>>)

FileContents ==
    { <<>>,
      <<"a">>,
      <<"a", "\n", "\n", "b">>,
      <<" ", "a", "\n", "\n", " ", "\n", "\n", "b", " ">>,
      <<"b", "\n", "\n", "\n", "a", "\n", "b">> }

FileChoices == {File(TRUE, t) : t \in FileContents} \cup {Unreadable}

FileLists(n, choices) == UNION {[1..k -> choices] : k \in 0..n}

Bundle(exists, ok, documents, metas, bids) ==
    [exists |-> exists, ok |-> ok, documents |-> documents,
     metadatas |-> metas, ids |-> bids]

BundleAbsent == Bundle(FALSE, FALSE, <<>>, <<>>, <<>>)
BundleBroken == Bundle(TRUE, FALSE, <<>>, <<>>, <<>>)
BundleNoDocs == Bundle(TRUE, TRUE, <<>>, <<>>, <<>>)
BundleOne ==
    Bundle(TRUE, TRUE, << <<"c">> >>,
           << Meta("austrian_law", "", 7, "T", "") >>, << LawId(1) >>)
BundleShortMeta ==
    Bundle(TRUE, TRUE, << <<"c">>, <<"d">> >>,
           << Meta("austrian_law", "", 0, "", "u") >>, << TxtId(0), LawId(2) >>)
SmallBundles ==
    {BundleAbsent, BundleBroken, BundleNoDocs, BundleOne, BundleShortMeta}

FreshStore == [n \in {} |-> EmptyColl]
StaleStore ==
    chroma_collection_name :>
        (TxtId(0) :> [doc |-> <<"old">>, meta |-> Meta("text_file", "paragraph", 0, "", "")])

(***************************************************************************)
(* Application.runSetup, called once as flask_backend is imported.         *)
(***************************************************************************)
\* Mutation: the results are taken as the workers finish (as_completed).
CompletionOrder(n, finished) == finished

\* executor.map yields the results in submission order, whatever the order
\* the workers finished in.
ResultOrder(n, finished) == [i \in 1..n |-> i]

\* for file_results in results: extend the three lists.
RECURSIVE Gather(_, _, _)
Gather(res, order, acc) ==
    IF order = <<>> THEN acc
    ELSE LET file_results == res[Head(order)].paras
             n == Len(file_results)
         IN Gather(res, Tail(order),
                   [docs  |-> acc.docs \o file_results,
                    metas |-> acc.metas \o [j \in 1..n |-> TextFileMeta],
                    ids   |-> acc.ids \o [j \in 1..n |-> TxtId(Len(acc.ids) + j - 1)]])

NoLists == [docs |-> <<>>, metas |-> <<>>, ids |-> <<>>]

SetupStart ==
    /\ pcSetup = "start"
    /\ IF Len(files) = 0 /\ ~bundle.exists
       THEN /\ setupMsg' = TRUE
            /\ pcSetup' = "returned"
       ELSE /\ setupMsg' = setupMsg
            /\ pcSetup' = IF Len(files) > 0 THEN "loading" ELSE "bundle"
    /\ UNCHANGED <<files, bundle, loadVars, listVars, collection, store, store0,
                   upVars, reqVars, cleanVars>>

WorkerStart ==
    /\ pcSetup = "loading"
    /\ submitted < Len(files)
    /\ Cardinality(running) < Min(max_workers, Len(files))
    /\ submitted' = submitted + 1
    /\ running' = running \cup {submitted + 1}
    /\ UNCHANGED <<files, bundle, pcSetup, setupMsg, results, completion, listVars,
                   collection, store, store0, upVars, reqVars, cleanVars>>

WorkerFinish(i) ==
    /\ pcSetup = "loading"
    /\ i \in running
    /\ running' = running \ {i}
    /\ results' = [results EXCEPT ![i] = [done |-> TRUE, paras |-> load_text_file(files[i])]]
    /\ completion' = Append(completion, i)
    /\ UNCHANGED <<files, bundle, pcSetup, setupMsg, submitted, listVars,
                   collection, store, store0, upVars, reqVars, cleanVars>>

GatherResults ==
    /\ pcSetup = "loading"
    /\ \A i \in 1..Len(files) : results[i].done
    /\ LET got == Gather(results, ResultOrder(Len(files), completion), NoLists)
       IN /\ vector_entries' = got.docs
          /\ metadatas' = got.metas
          /\ ids' = got.ids
    /\ pcSetup' = "bundle"
    /\ UNCHANGED <<files, bundle, setupMsg, loadVars, collection, store, store0,
                   upVars, reqVars, cleanVars>>

\* _load_austrian_law_json: {} when the file cannot be read or parsed.
LoadBundle ==
    /\ pcSetup = "bundle"
    /\ IF bundle.exists /\ bundle.ok
       THEN /\ vector_entries' = vector_entries \o bundle.documents
            /\ metadatas' = metadatas \o bundle.metadatas
            /\ ids' = ids \o bundle.ids
       ELSE UNCHANGED listVars
    /\ pcSetup' = "check"
    /\ UNCHANGED <<files, bundle, setupMsg, loadVars, collection, store, store0,
                   upVars, reqVars, cleanVars>>

\* if not vector_entries: sys.exit(1)
CheckLoaded ==
    /\ pcSetup = "check"
    /\ pcSetup' = IF vector_entries = <<>> THEN "exited" ELSE "bind"
    /\ UNCHANGED <<files, bundle, setupMsg, loadVars, listVars, collection, store,
                   store0, upVars, reqVars, cleanVars>>

SetupBindName == chroma_collection_name

SetupBind ==
    /\ pcSetup = "bind"
    /\ store' = StoreGetOrCreate(store, SetupBindName)
    /\ collection' = Handle(SetupBindName)
    /\ pcSetup' = "upsert"
    /\ UNCHANGED <<files, bundle, setupMsg, loadVars, listVars, store0,
                   upVars, reqVars, cleanVars>>

(***************************************************************************)
(* ChromaDBHandler.upsert_documents_with_metadata                          *)
(***************************************************************************)
UpsertPrepare ==
    /\ pcSetup = "upsert"
    /\ IF vector_entries = <<>>
       THEN /\ pcSetup' = "done"
            /\ UNCHANGED upVars
       ELSE LET n == Len(vector_entries)
                the_ids == IF ids = <<>>
                           THEN [j \in 1..n |-> UuidId(uuidCtr + j)] ELSE ids
                the_metas == IF metadatas = <<>>
                             THEN [j \in 1..n |-> UnknownMeta] ELSE metadatas
                min_length == Min(n, Min(Len(the_metas), Len(the_ids)))
            IN /\ upDocs' = SubSeq(vector_entries, 1, min_length)
               /\ upMetas' = SubSeq(the_metas, 1, min_length)
               /\ upIds' = SubSeq(the_ids, 1, min_length)
               /\ uuidCtr' = IF ids = <<>> THEN uuidCtr + n ELSE uuidCtr
               /\ upI' = 0
               /\ upsertCalls' = <<>>
               /\ pcSetup' = "batch"
    /\ UNCHANGED <<files, bundle, setupMsg, loadVars, listVars, collection, store,
                   store0, reqVars, cleanVars>>

\* documents[i:i + batch_size], as the 1-based index range i+1 .. min(i+batch_size, n)
BatchEnd(i, n) == Min(i + batch_size, n)

\* Mutation: the loop steps one index too far.
NextBatchStartSkip(i) == i + batch_size + 1

NextBatchStart(i) == i + batch_size

UpsertBatch ==
    /\ pcSetup = "batch"
    /\ upI < Len(upDocs)
    /\ LET hi == BatchEnd(upI, Len(upDocs))
           batch_docs == SubSeq(upDocs, upI + 1, hi)
           batch_meta == SubSeq(upMetas, upI + 1, hi)
           batch_ids == SubSeq(upIds, upI + 1, hi)
       IN /\ store' = [store EXCEPT ![collection.name] =
                           StoreUpsert(@, batch_docs, batch_meta, batch_ids)]
          /\ upsertCalls' = Append(upsertCalls,
                 [documents |-> batch_docs, metadatas |-> batch_meta, ids |-> batch_ids])
    /\ upI' = NextBatchStart(upI)
    /\ UNCHANGED <<files, bundle, pcSetup, setupMsg, loadVars, listVars, collection,
                   store0, upDocs, upMetas, upIds, uuidCtr, reqVars, cleanVars>>

UpsertDone ==
    /\ pcSetup = "batch"
    /\ upI >= Len(upDocs)
    /\ pcSetup' = "done"
    /\ UNCHANGED <<files, bundle, setupMsg, loadVars, listVars, collection, store,
                   store0, upVars, reqVars, cleanVars>>

SetupStep ==
    \/ SetupStart
    \/ WorkerStart
    \/ \E i \in 1..MaxFiles + 1 : WorkerFinish(i)
    \/ GatherResults
    \/ LoadBundle
    \/ CheckLoaded
    \/ SetupBind
    \/ UpsertPrepare
    \/ UpsertBatch
    \/ UpsertDone

(***************************************************************************)
(* Application.get_answer_from_llm: the prompt and the cleaning.           *)
(***************************************************************************)
ThinkOpen == "<think>"
ThinkClose == "</think>"

Prompt(q, ctx) ==
    <<"You are an AI Legal Counsel ... BGBl numbers if available">>
    \o <<"\n", "\n", "Question: ">> \o q
    \o <<"\n", "\n", "Relevant Information: ">> \o ctx
    \o <<"\n", "\n", "Provide your analysis and advice:">>

\* Mutation: the greedy pattern '<think>.*</think>', which ends at the last closing tag.
MatchEndGreedy(s) ==
    CHOOSE j \in 2..Len(s) : s[j] = ThinkClose /\ \A k \in (j + 1)..Len(s) : s[k] # ThinkClose

\* Where the match of '<think>.*?</think>' that starts at s[1] ends: the
\* pattern is lazy, so at the nearest closing tag.
MatchEnd(s) ==
    CHOOSE j \in 2..Len(s) : s[j] = ThinkClose /\ \A k \in 2..(j - 1) : s[k] # ThinkClose

\* re.sub(r'<think>.*?</think>', '', s, flags=re.DOTALL): leftmost matches,
\* one after the other, each replaced by nothing.
RECURSIVE re_sub_think(_)
re_sub_think(s) ==
    IF s = <<>> THEN <<>>
    ELSE IF Head(s) = ThinkOpen /\ \E j \in 2..Len(s) : s[j] = ThinkClose
         THEN re_sub_think(SubSeq(s, MatchEnd(s) + 1, Len(s)))
         ELSE <<Head(s)>> \o re_sub_think(Tail(s))

clean(text) == strip(re_sub_think(text))

(***************************************************************************)
(* Application.runQuestion: retrieval and context.                         *)
(***************************************************************************)
\* collection.query(n_results=5): the store's ranking is its own; it returns
\* min(n_results, count) distinct chunks in some order.
QueryRankings(coll) ==
    LET k == Min(n_results, Cardinality(DOMAIN coll))
    IN {r \in [1..k -> DOMAIN coll] : \A i, j \in 1..k : r[i] = r[j] => i = j}

NoResult == [returned |-> FALSE, documents |-> <<>>, metadatas |-> <<>>]

QueryResult(coll, r) ==
    [returned |-> TRUE,
     documents |-> [i \in 1..Len(r) |-> coll[r[i]].doc],
     metadatas |-> [i \in 1..Len(r) |-> coll[r[i]].meta]]

\* Mutation: the empty-result return is never taken.
IsEmptyResultNever(documents) == FALSE

IsEmptyResult(documents) == documents = <<>>

\* Mutation: the chunks are joined last-ranked first.
ContextReversed(documents) ==
    join(<<"\n", "\n">>, [i \in 1..Len(documents) |-> documents[Len(documents) + 1 - i]])

Context(documents) == join(<<"\n", "\n">>, documents)

\* The entries of law_sources, one per metadata that names a law or a url.
LawSource(meta) ==
    IF meta.law_number # 0
    THEN <<"Law ", ToString(meta.law_number), " - ", meta.title>>
    ELSE <<"Source: ", meta.url>>

LawSources(metas) ==
    {LawSource(metas[i]) : i \in {j \in 1..Len(metas) :
                                     metas[j].law_number # 0 \/ metas[j].url # ""}}

\* '; '.join(set(law_sources)) for one iteration order of the set.
MetadataContext(order) ==
    IF order = <<>> THEN <<>>
    ELSE <<"\n", "\n", "Sources: ">> \o join(<<"; ">>, order)

(***************************************************************************)
(* flask_backend.ask_legal_question                                        *)
(***************************************************************************)
Threads == 1..NThreads

Body(kind, qkind, q) == [kind |-> kind, qkind |-> qkind, q |-> q]

NoBody == Body("none", "absent", <<>>)

Questions == { <<"Is", " ", "{context}", " ", "binding?">> }

\* request.json raises (no JSON body), or gives None, a list, or a dict whose
\* 'question' is absent, null, a string or a number.
RequestBodies ==
    { Body("not_json", "absent", <<>>),
      Body("null", "absent", <<>>),
      Body("array", "absent", <<>>),
      Body("object", "absent", <<>>),
      Body("object", "null", <<>>),
      Body("object", "number", <<>>),
      Body("object", "string", <<>>) }
    \cup {Body("object", "string", q) : q \in Questions}

LLMOutputs ==
    { <<"ok">>,
      <<ThinkOpen, "plan", ThinkClose, "\n", "ok", " ">> }

Response(status, error, q, ans) ==
    [status |-> status, error |-> error, question |-> q, answer |-> ans]

NoResponse == Response(0, <<>>, <<>>, <<>>)

NoQuestionResponse ==
    Response(400, <<"No question provided">>, <<>>,
             <<"Please ask a specific legal question.">>)

FallbackAnswer == <<"I couldn't find relevant information to answer your question.">>

AnswerResponse(q, ans) == Response(200, <<>>, q, ans)

\* Mutation: the response carries str(e).
ErrorResponseLeaky(e) ==
    Response(500, e, <<>>, <<"Sorry, I encountered an error. Please try again.">>)

\* except Exception as e: the response does not use e.
ErrorResponse(e) ==
    Response(500, <<"An error occurred while processing your question">>, <<>>,
             <<"Sorry, I encountered an error. Please try again.">>)

ExcParse == <<"BadRequest: Failed to decode JSON object">>
ExcAttr == <<"AttributeError: object has no attribute 'get'">>
ExcType == <<"TypeError: object is not subscriptable">>
ExcStore == <<"chromadb.errors.InternalError">>
ExcModel == <<"ollama.ResponseError">>

Serving == pcSetup \in {"returned", "done"}

\* The except clause of ask_legal_question, reached from any statement of the try.
Catch(t, e) ==
    /\ raised' = [raised EXCEPT ![t] = e]
    /\ response' = [response EXCEPT ![t] = ErrorResponse(e)]
    /\ pc' = [pc EXCEPT ![t] = "idle"]

IsFalsy(b) == b.qkind \in {"absent", "null"} \/ (b.qkind = "string" /\ b.q = <<>>)

\* A request arrives: request.json, data.get('question', ''), if not question.
Receive(t) ==
    /\ Serving
    /\ pc[t] = "idle"
    /\ \E b \in RequestBodies :
        /\ body' = [body EXCEPT ![t] = b]
        /\ handle' = [handle EXCEPT ![t] = NoCollection]
        /\ queryCount' = [queryCount EXCEPT ![t] = 0]
        /\ queriedColl' = [queriedColl EXCEPT ![t] = NoCollection]
        /\ retrieved' = [retrieved EXCEPT ![t] = NoResult]
        /\ llmCalls' = [llmCalls EXCEPT ![t] = 0]
        /\ llmPrompt' = [llmPrompt EXCEPT ![t] = <<>>]
        /\ llmOut' = [llmOut EXCEPT ![t] = <<>>]
        /\ context' = [context EXCEPT ![t] = <<>>]
        /\ IF b.kind = "not_json"
           THEN /\ Catch(t, ExcParse)
                /\ question' = [question EXCEPT ![t] = <<>>]
           ELSE IF b.kind # "object"
           THEN /\ Catch(t, ExcAttr)
                /\ question' = [question EXCEPT ![t] = <<>>]
           ELSE /\ question' = [question EXCEPT ![t] = b.q]
                /\ raised' = [raised EXCEPT ![t] = <<>>]
                /\ IF IsFalsy(b)
                   THEN /\ response' = [response EXCEPT ![t] = NoQuestionResponse]
                        /\ pc' = [pc EXCEPT ![t] = "idle"]
                   ELSE /\ response' = [response EXCEPT ![t] = NoResponse]
                        /\ pc' = [pc EXCEPT ![t] = "check"]
    /\ UNCHANGED <<setupVars, cleanVars>>

\* if not self.collection
CheckCollection(t) ==
    /\ pc[t] = "check"
    /\ pc' = [pc EXCEPT ![t] = IF collection.bound THEN "query" ELSE "get"]
    /\ UNCHANGED <<setupVars, cleanVars, body, question, handle, queryCount,
                   queriedColl, retrieved, context, llmCalls, llmPrompt, llmOut,
                   raised, response>>

\* Mutation: the lazy bind asks for another collection than runSetup.
QuestionBindDefault == "default"

QuestionBindName == chroma_collection_name

\* self.chroma_db_handler.get_or_create_collection(...), the right-hand side
GetCollection(t) ==
    /\ pc[t] = "get"
    /\ \/ /\ store' = StoreGetOrCreate(store, QuestionBindName)
          /\ handle' = [handle EXCEPT ![t] = Handle(QuestionBindName)]
          /\ pc' = [pc EXCEPT ![t] = "assign"]
          /\ UNCHANGED <<raised, response>>
       \/ /\ Catch(t, ExcStore)
          /\ UNCHANGED <<store, handle>>
    /\ UNCHANGED <<files, bundle, pcSetup, setupMsg, loadVars, listVars, collection,
                   store0, upVars, cleanVars, body, question, queryCount,
                   queriedColl, retrieved, context, llmCalls, llmPrompt, llmOut>>

\* self.collection = ...
AssignCollection(t) ==
    /\ pc[t] = "assign"
    /\ collection' = handle[t]
    /\ pc' = [pc EXCEPT ![t] = "query"]
    /\ UNCHANGED <<files, bundle, pcSetup, setupMsg, loadVars, listVars, store,
                   store0, upVars, cleanVars, body, question, handle, queryCount,
                   queriedColl, retrieved, context, llmCalls, llmPrompt, llmOut,
                   raised, response>>

\* query_text[:50], query_documents, the empty-result return, context and
\* metadata_context.
Query(t) ==
    /\ pc[t] = "query"
    /\ IF body[t].qkind = "number"
       THEN /\ Catch(t, ExcType)
            /\ UNCHANGED <<queryCount, queriedColl, retrieved, context>>
       ELSE /\ queryCount' = [queryCount EXCEPT ![t] = @ + 1]
            /\ queriedColl' = [queriedColl EXCEPT ![t] = collection]
            /\ \/ /\ Catch(t, ExcStore)
                  /\ UNCHANGED <<retrieved, context>>
               \/ /\ collection.name \in DOMAIN store
                  /\ \E r \in QueryRankings(store[collection.name]) :
                       LET res == QueryResult(store[collection.name], r)
                       IN /\ retrieved' = [retrieved EXCEPT ![t] = res]
                          /\ raised' = raised
                          /\ IF IsEmptyResult(res.documents)
                             THEN /\ response' = [response EXCEPT ![t] =
                                        AnswerResponse(question[t], FallbackAnswer)]
                                  /\ pc' = [pc EXCEPT ![t] = "idle"]
                                  /\ context' = context
                             ELSE /\ \E order \in Orderings(LawSources(res.metadatas)) :
                                        context' = [context EXCEPT ![t] =
                                            Context(res.documents) \o MetadataContext(order)]
                                  /\ pc' = [pc EXCEPT ![t] = "llm"]
                                  /\ response' = response
    /\ UNCHANGED <<setupVars, cleanVars, body, question, handle, llmCalls,
                   llmPrompt, llmOut>>

\* get_answer_from_llm: one chat() call, then the cleaning and the response.
CallLLM(t) ==
    /\ pc[t] = "llm"
    /\ llmCalls' = [llmCalls EXCEPT ![t] = @ + 1]
    /\ llmPrompt' = [llmPrompt EXCEPT ![t] = Prompt(question[t], context[t])]
    /\ \/ /\ Catch(t, ExcModel)
          /\ llmOut' = llmOut
       \/ \E out \in LLMOutputs :
            /\ llmOut' = [llmOut EXCEPT ![t] = out]
            /\ response' = [response EXCEPT ![t] = AnswerResponse(question[t], clean(out))]
            /\ pc' = [pc EXCEPT ![t] = "idle"]
            /\ raised' = raised
    /\ UNCHANGED <<setupVars, cleanVars, body, question, handle, queryCount,
                   queriedColl, retrieved, context>>

RequestStep(t) ==
    \/ Receive(t)
    \/ CheckCollection(t)
    \/ GetCollection(t)
    \/ AssignCollection(t)
    \/ Query(t)
    \/ CallLLM(t)

(***************************************************************************)
(* The cleaning of one model output, for every output up to MaxOut tokens. *)
(***************************************************************************)
OutputTokens == {ThinkOpen, ThinkClose, "a", "b", " "}

Outputs == UNION {[1..n -> OutputTokens] : n \in 0..MaxOut}

CleanOutput ==
    /\ pcClean = "raw"
    /\ answer' = clean(content)
    /\ pcClean' = "cleaned"
    /\ UNCHANGED <<setupVars, reqVars, content>>

(***************************************************************************)
(* Specifications.                                                         *)
(***************************************************************************)
InitRequests ==
    /\ pc = [t \in Threads |-> "idle"]
    /\ body = [t \in Threads |-> NoBody]
    /\ question = [t \in Threads |-> <<>>]
    /\ handle = [t \in Threads |-> NoCollection]
    /\ queryCount = [t \in Threads |-> 0]
    /\ queriedColl = [t \in Threads |-> NoCollection]
    /\ retrieved = [t \in Threads |-> NoResult]
    /\ context = [t \in Threads |-> <<>>]
    /\ llmCalls = [t \in Threads |-> 0]
    /\ llmPrompt = [t \in Threads |-> <<>>]
    /\ llmOut = [t \in Threads |-> <<>>]
    /\ raised = [t \in Threads |-> <<>>]
    /\ response = [t \in Threads |-> NoResponse]

InitSetup(fileLists, bundles, stores) ==
    /\ files \in fileLists
    /\ bundle \in bundles
    /\ store0 \in stores
    /\ store = store0
    /\ pcSetup = "start"
    /\ setupMsg = FALSE
    /\ submitted = 0
    /\ running = {}
    /\ results = [i \in 1..Len(files) |-> [done |-> FALSE, paras |-> <<>>]]
    /\ completion = <<>>
    /\ vector_entries = <<>>
    /\ metadatas = <<>>
    /\ ids = <<>>
    /\ collection = NoCollection
    /\ upDocs = <<>>
    /\ upMetas = <<>>
    /\ upIds = <<>>
    /\ upI = 0
    /\ upsertCalls = <<>>
    /\ uuidCtr = 0

InitNoClean ==
    /\ content = <<>>
    /\ answer = <<>>
    /\ pcClean = "idle"

\* The service: runSetup at import, then requests on concurrent threads.
ServiceFiles == FileLists(1, {File(TRUE, <<"a", "\n", "\n", "b">>), Unreadable})

Init ==
    /\ InitSetup(ServiceFiles, {BundleAbsent, BundleOne}, {FreshStore, StaleStore})
    /\ InitRequests
    /\ InitNoClean

Next == SetupStep \/ \E t \in Threads : RequestStep(t)

Spec == Init /\ [][Next]_vars

\* runSetup alone, over every list of up to MaxFiles files.
InitLoad ==
    /\ InitSetup(FileLists(MaxFiles, FileChoices), SmallBundles, {StaleStore})
    /\ InitRequests
    /\ InitNoClean

NextLoad == SetupStep

SpecSetup == InitLoad /\ [][NextLoad]_vars

\* The cleaning alone.
InitClean ==
    /\ InitSetup({<<>>}, {BundleAbsent}, {FreshStore})
    /\ InitRequests
    /\ content \in Outputs
    /\ answer = <<>>
    /\ pcClean = "raw"

NextClean == CleanOutput

SpecClean == InitClean /\ [][NextClean]_vars

\* runSetup over at most one text file and a bundle of up to
\* MaxBatches * batch_size + 1 documents, whose three arrays may differ in
\* length and whose ids may repeat.
IdPattern(pat, i) ==
    CASE pat = "distinct" -> i
      [] pat = "pairs"    -> (i + 1) \div 2
      [] pat = "wrap"     -> i % batch_size

BigBundle(nd, nm, ni, pat) ==
    Bundle(TRUE, TRUE,
           [i \in 1..nd |-> <<ToString(i)>>],
           [i \in 1..nm |-> Meta("austrian_law", "section", i, "", "")],
           [i \in 1..ni |-> LawId(IdPattern(pat, i))])

UpsertLengths ==
    {1, batch_size, batch_size + 1,
     MaxBatches * batch_size, MaxBatches * batch_size + 1}

BigBundles ==
    {BigBundle(nd, nm, ni, pat) :
        nd \in UpsertLengths,
        nm \in {0, batch_size + 2, MaxBatches * batch_size},
        ni \in {0, 1, MaxBatches * batch_size + 2},
        pat \in {"distinct", "pairs", "wrap"}}

StaleLawStore ==
    chroma_collection_name :>
        (LawId(1) :> [doc |-> <<"old">>, meta |-> UnknownMeta]
         @@ LawId(0) :> [doc |-> <<"older">>, meta |-> UnknownMeta])

InitUpsert ==
    /\ InitSetup(FileLists(1, {File(TRUE, <<"a">>)}), BigBundles, {StaleLawStore})
    /\ InitRequests
    /\ InitNoClean

SpecUpsert == InitUpsert /\ [][NextLoad]_vars

(***************************************************************************)
(* C4: batching is transparent.  Every collection.upsert call carries at   *)
(* most 1000 entries, its three lists equally long; the calls sent so far  *)
(* are, concatenated, the first entries of the truncated input in input    *)
(* order, and when the method returns they are the whole of it; the        *)
(* collection then is what one upsert of the whole truncated input makes   *)
(* of the collection the method was given: each id of the input holds the  *)
(* text and metadata of its last occurrence, every other id is untouched.  *)
(***************************************************************************)
CallsDocs == Flatten([c \in 1..Len(upsertCalls) |-> upsertCalls[c].documents])
CallsMetas == Flatten([c \in 1..Len(upsertCalls) |-> upsertCalls[c].metadatas])
CallsIds == Flatten([c \in 1..Len(upsertCalls) |-> upsertCalls[c].ids])

LastOccurrence(seq, k) ==
    CHOOSE j \in 1..Len(seq) : seq[j] = k /\ \A j2 \in (j + 1)..Len(seq) : seq[j2] # k

GivenCollection == StoreGetOrCreate(store0, chroma_collection_name)[chroma_collection_name]

C4_BatchingTransparent ==
    pcSetup \in {"batch", "done"} /\ upDocs # <<>> =>
        /\ \A c \in 1..Len(upsertCalls) :
              /\ Len(upsertCalls[c].documents) <= 1000
              /\ Len(upsertCalls[c].documents) >= 1
              /\ Len(upsertCalls[c].metadatas) = Len(upsertCalls[c].documents)
              /\ Len(upsertCalls[c].ids) = Len(upsertCalls[c].documents)
        /\ Len(CallsDocs) <= Len(upDocs)
        /\ CallsDocs = SubSeq(upDocs, 1, Len(CallsDocs))
        /\ CallsMetas = SubSeq(upMetas, 1, Len(CallsDocs))
        /\ CallsIds = SubSeq(upIds, 1, Len(CallsDocs))
        /\ pcSetup = "done" =>
              /\ CallsDocs = upDocs
              /\ store[chroma_collection_name] =
                     StoreUpsert(GivenCollection, upDocs, upMetas, upIds)
              /\ \A k \in Range(upIds) :
                     LET j == LastOccurrence(upIds, k)
                     IN store[chroma_collection_name][k] =
                            [doc |-> upDocs[j], meta |-> upMetas[j]]
              /\ \A k \in DOMAIN GivenCollection \ Range(upIds) :
                     store[chroma_collection_name][k] = GivenCollection[k]
              /\ DOMAIN store[chroma_collection_name] =
                     DOMAIN GivenCollection \cup Range(upIds)

\* An input truncated to its shortest list, of more than two batches, with
\* repeated ids, has been upserted into a collection that held one of the ids.
C4_Witness ==
    /\ pcSetup = "done"
    /\ Len(upsertCalls) >= 3
    /\ Len(upDocs) < Len(vector_entries)
    /\ Cardinality(Range(upIds)) < Len(upIds)
    /\ LawId(1) \in DOMAIN GivenCollection \cap Range(upIds)

(***************************************************************************)
(* Helpers of the properties below.                                        *)
(***************************************************************************)
IsInfix(a, b) ==
    \E i \in 0..(Len(b) - Len(a)) : SubSeq(b, i + 1, i + Len(a)) = a

RECURSIVE SumLen(_)
SumLen(ss) == IF ss = <<>> THEN 0 ELSE Len(Head(ss)) + SumLen(Tail(ss))

AfterGather == pcSetup \in {"bundle", "check", "bind", "upsert", "batch", "done", "exited"}

\* A token of s at position i lies in a reasoning section: a <think> at or
\* before it is followed, with no </think> in between, by a </think> at or
\* after it.
InSection(s, i) ==
    \E o \in 1..i :
        /\ s[o] = ThinkOpen
        /\ \A k \in (o + 1)..(i - 1) : s[k] # ThinkClose
        /\ \E c \in Max(i, o + 1)..Len(s) : s[c] = ThinkClose

\* s without its reasoning sections and without the whitespace at its ends.
Outside(s) ==
    LET idx == SelectSeq([i \in 1..Len(s) |-> i], LAMBDA i : ~InSection(s, i))
    IN [n \in 1..Len(idx) |-> s[idx[n]]]

Trimmed(s) ==
    LET solid == {n \in 1..Len(s) : s[n] \notin {" ", "\n"}}
    IN IF solid = {} THEN <<>>
       ELSE SubSeq(s, CHOOSE n \in solid : \A m \in solid : n <= m,
                      CHOOSE n \in solid : \A m \in solid : n >= m)

(***************************************************************************)
(* C1: when the store's query returns an empty result list, runQuestion    *)
(* returns exactly the fixed fallback string, the response carries it with *)
(* the question, and the language model is not called in that request.    *)
(***************************************************************************)
C1_EmptyResultFallback ==
    \A t \in Threads :
        retrieved[t].returned /\ retrieved[t].documents = <<>> =>
            /\ llmCalls[t] = 0
            /\ pc[t] = "idle"
            /\ raised[t] = <<>>
            /\ response[t] =
                   [status |-> 200, error |-> <<>>, question |-> question[t],
                    answer |-> <<"I couldn't find relevant information to answer your question.">>]

\* A question was answered from an empty result list.
C1_Witness ==
    \E t \in Threads :
        /\ retrieved[t].returned
        /\ retrieved[t].documents = <<>>
        /\ queryCount[t] = 1
        /\ response[t].status = 200
        /\ question[t] # <<>>

(***************************************************************************)
(* C2: whenever no input contributes a chunk (no .txt file and no bundle,  *)
(* or only files and a bundle that contribute none), runSetup ends by      *)
(* exiting the process, sends no upsert, and no request is ever handled.   *)
(***************************************************************************)
ZeroChunks ==
    /\ \A i \in 1..Len(files) : load_text_file(files[i]) = <<>>
    /\ ~(bundle.exists /\ bundle.ok) \/ bundle.documents = <<>>

C2_EmptyIngestionIsFatal ==
    ZeroChunks =>
        /\ pcSetup \notin {"returned", "done"}
        /\ upsertCalls = <<>>
        /\ \A t \in Threads : body[t] = NoBody /\ queryCount[t] = 0

(***************************************************************************)
(* C3: whatever order the file-read workers finish in, the text chunks of  *)
(* runSetup are the paragraphs of the files in file-list order, the n-th   *)
(* (from 0) with id txt_<n>; their number is the sum of the files'         *)
(* paragraph counts and no two of them share an id.                        *)
(***************************************************************************)
FileParagraphs == [i \in 1..Len(files) |-> load_text_file(files[i])]

C3_DeterministicChunks ==
    AfterGather =>
        LET expected == Flatten(FileParagraphs)
            N == Len(expected)
        IN /\ N = SumLen(FileParagraphs)
           /\ Len(vector_entries) >= N /\ Len(ids) >= N
           /\ SubSeq(vector_entries, 1, N) = expected
           /\ \A n \in 1..N : ids[n] = <<"txt", n - 1>>
           /\ \A m, n \in 1..N : ids[m] = ids[n] => m = n

\* Setup finished after a later file's worker finished before an earlier
\* file's, both files having paragraphs, and not the same ones.
C3_Witness ==
    /\ pcSetup = "done"
    /\ Len(files) >= 2
    /\ completion[1] # 1
    /\ load_text_file(files[1]) # <<>>
    /\ load_text_file(files[2]) # <<>>
    /\ load_text_file(files[1]) # load_text_file(files[2])

(***************************************************************************)
(* C5: an exception raised anywhere in the handling of a request ends in   *)
(* the 500 response with the fixed error/answer pair, and no response      *)
(* carries any exception's text.                                           *)
(***************************************************************************)
ExceptionTexts == {ExcParse, ExcAttr, ExcType, ExcStore, ExcModel}

ResponseTokens(r) == Range(r.error) \cup Range(r.question) \cup Range(r.answer)

C5_GenericError ==
    \A t \in Threads :
        /\ raised[t] # <<>> =>
              /\ pc[t] = "idle"
              /\ response[t] =
                     [status |-> 500,
                      error |-> <<"An error occurred while processing your question">>,
                      question |-> <<>>,
                      answer |-> <<"Sorry, I encountered an error. Please try again.">>]
        /\ \A e \in ExceptionTexts : Range(e) \cap ResponseTokens(response[t]) = {}

\* One request failed in the model call while another failed in the store.
C5_Witness ==
    \E t, u \in Threads :
        /\ raised[t] = ExcModel /\ llmCalls[t] = 1
        /\ raised[u] = ExcStore
        /\ response[t].status = 500 /\ response[u].status = 500

(***************************************************************************)
(* C6: every request whose question is missing or empty gets the 400       *)
(* response "No question provided", with no store query and no model call. *)
(***************************************************************************)
QuestionMissingOrEmpty(b) ==
    \/ b.kind \in {"not_json", "null", "array"}
    \/ b.kind = "object" /\ b.qkind \in {"absent", "null"}
    \/ b.kind = "object" /\ b.qkind = "string" /\ b.q = <<>>

C6_MissingQuestionIs400 ==
    \A t \in Threads :
        QuestionMissingOrEmpty(body[t]) =>
            /\ response[t] =
                   [status |-> 400, error |-> <<"No question provided">>,
                    question |-> <<>>,
                    answer |-> <<"Please ask a specific legal question.">>]
            /\ queryCount[t] = 0
            /\ llmCalls[t] = 0

(***************************************************************************)
(* C7: when the retrieval result is not empty the language model is called *)
(* exactly once in the request, also when the call fails; the prompt has   *)
(* the literal question after "Question: " and the retrieved texts in      *)
(* ranking order, joined by a blank line, after "Relevant Information: ";  *)
(* the answer is that call's output without its reasoning sections and     *)
(* without whitespace at its ends.                                         *)
(***************************************************************************)
C7_OneModelCall ==
    \A t \in Threads :
        retrieved[t].returned /\ retrieved[t].documents # <<>> =>
            IF pc[t] = "llm"
            THEN llmCalls[t] = 0 /\ response[t] = NoResponse
            ELSE /\ pc[t] = "idle"
                 /\ llmCalls[t] = 1
                 /\ IsInfix(<<"Question: ">> \o question[t], llmPrompt[t])
                 /\ IsInfix(<<"Relevant Information: ">>
                              \o Flatten([i \in 1..Len(retrieved[t].documents) |->
                                    IF i = 1 THEN retrieved[t].documents[i]
                                    ELSE <<"\n", "\n">> \o retrieved[t].documents[i]]),
                            llmPrompt[t])
                 /\ IF raised[t] = <<>>
                    THEN response[t] =
                             [status |-> 200, error |-> <<>>, question |-> question[t],
                              answer |-> Trimmed(Outside(llmOut[t]))]
                    ELSE response[t].status = 500 /\ llmOut[t] = <<>>

\* A question was answered from two or more retrieved chunks, the model's
\* output having a reasoning section.
C7_Witness ==
    \E t \in Threads :
        /\ llmCalls[t] = 1
        /\ Len(retrieved[t].documents) >= 2
        /\ retrieved[t].documents[1] # retrieved[t].documents[2]
        /\ response[t].status = 200
        /\ ThinkOpen \in Range(llmOut[t])

(***************************************************************************)
(* C8: the answer get_answer_from_llm returns for a model output is the    *)
(* output without its reasoning sections (each from a <think> to the next  *)
(* </think>, tags included), the text outside them kept in order, and      *)
(* without whitespace at either end.                                       *)
(***************************************************************************)
C8_ReasoningRemoved ==
    pcClean = "cleaned" =>
        /\ answer = Trimmed(Outside(content))
        /\ answer # <<>> => answer[1] \notin {" ", "\n"} /\ answer[Len(answer)] \notin {" ", "\n"}
        /\ \A i \in 1..Len(content) :
              InSection(content, i) /\ content[i] \in {"a", "b"} =>
                  Len(SelectSeq(answer, LAMBDA x : x = content[i]))
                      < Len(SelectSeq(content, LAMBDA x : x = content[i]))

\* An output with text before and after a reasoning section was cleaned.
C8_Witness ==
    /\ pcClean = "cleaned"
    /\ content = <<" ", "a", ThinkOpen, "b", ThinkClose>>
    /\ answer = <<"a">>

(***************************************************************************)
(* C9 as stated: when some text file cannot be read, runSetup does not     *)
(* abort.                                                                  *)
(***************************************************************************)
SomeUnreadable == \E i \in 1..Len(files) : ~files[i].readable

C9_NeverAborts == SomeUnreadable => pcSetup # "exited"

(***************************************************************************)
(* C9, amended: an unreadable file contributes no chunk and does not stop  *)
(* runSetup: the text chunks, their metadata and their ids are those of    *)
(* the readable files in file-list order, ids txt_0 .. txt_<N-1> without   *)
(* gaps; runSetup exits only when no chunk at all was loaded, from the     *)
(* readable files or from the bundle.                                      *)
(***************************************************************************)
C9_UnreadableSkipped ==
    AfterGather =>
        LET readable == SelectSeq(files, LAMBDA f : f.readable)
            expected == Flatten([i \in 1..Len(readable) |-> Paragraphs(readable[i].content)])
            N == Len(expected)
        IN /\ Len(vector_entries) >= N /\ Len(metadatas) >= N /\ Len(ids) >= N
           /\ SubSeq(vector_entries, 1, N) = expected
           /\ SubSeq(metadatas, 1, N) =
                  [n \in 1..N |-> [source |-> "text_file", type |-> "paragraph",
                                   law_number |-> 0, title |-> "", url |-> ""]]
           /\ SubSeq(ids, 1, N) = [n \in 1..N |-> <<"txt", n - 1>>]
           /\ pcSetup = "bundle" => Len(vector_entries) = N
           /\ pcSetup = "exited" =>
                  N = 0 /\ (~(bundle.exists /\ bundle.ok) \/ bundle.documents = <<>>)

\* Setup finished with an unreadable first file and the two paragraphs of
\* the second file upserted.
C9_Witness ==
    /\ pcSetup = "done"
    /\ Len(files) >= 2
    /\ ~files[1].readable
    /\ files[2].readable
    /\ Len(Paragraphs(files[2].content)) = 2
    /\ Len(upIds) >= 2
    /\ SubSeq(upIds, 1, 2) = <<TxtId(0), TxtId(1)>>
    /\ upsertCalls # <<>>

(***************************************************************************)
(* C10: once Application.collection is bound no step unbinds it or binds   *)
(* it to another collection, and every store query is issued, with the     *)
(* handle bound, against the existing collection of the configured name.   *)
(***************************************************************************)
C10_BoundOnce ==
    [][ /\ collection.bound => collection' = collection
        /\ \A t \in Threads :
              queryCount'[t] > queryCount[t] =>
                  /\ collection.bound
                  /\ queriedColl'[t] = [bound |-> TRUE, name |-> chroma_collection_name]
                  /\ chroma_collection_name \in DOMAIN store ]_vars

\* Two requests raced through the lazy bind, both bound, both queried.
C10_Witness ==
    \E t, u \in Threads :
        /\ t # u
        /\ handle[t].bound /\ handle[u].bound
        /\ queryCount[t] = 1 /\ queryCount[u] = 1
        /\ collection.bound

====
